---- MODULE Spec2Model ----
(***************************************************************************)
(* Model of main.go: dirTree = readDir (build the tree of nodes) followed  *)
(* by printDir (render it).  Both recursions are modelled with explicit    *)
(* call stacks, one action per step of the Go code.  The filesystem and    *)
(* the output sink are the environment: what os.Open, File.Readdir,        *)
(* File.Close and Writer.Write answer is chosen with \E in the action that *)
(* makes the call and recorded in history variables.                       *)
(*                                                                         *)
(* Text is modelled with TLA+ strings.  TLA+ strings are ASCII, so the     *)
(* three box-drawing glyphs of main.go are written with ASCII stand-ins:   *)
(*   U+251C U+2500 U+2500 U+2500  (branch connector)  as  "+---"           *)
(*   U+2514 U+2500 U+2500 U+2500  (last connector)    as  "\---"           *)
(*   U+2502 followed by a tab     (bar fragment)      as  "|" and a tab    *)
(***************************************************************************)
EXTENDS Integers, Sequences, FiniteSets, TLC

\* ------------------------------------------------------------------ bounds
MaxName == 2      \* entry names are NameTable[1..MaxName]
MaxNodes == 4     \* total number of directory entries the filesystem returns
MaxFaults == 2    \* failing Open/Readdir/Close/Write calls in one run
CapSlack == 1     \* spare capacity append may allocate beyond what is needed

\* Entry names, in ascending byte order: Name i < Name j  iff  i < j.
NameTable == <<"docs", "main.go", "readme.txt", "src", "zz">>
Names == 1..MaxName
\* Size in bytes of the entry of each name when it is a plain file.
SizeTable == <<7, 0, 120, 0, 1024>>

VARIABLES
  withFiles,    \* dirTree's isPrintFiles argument
  pc,           \* dirTree: "build", "render", "done", "crashed"
  result,       \* the error dirTree returned (NilErr for nil)
  rstack,       \* call stack of readDir, innermost frame last
  ret,          \* value just returned by the readDir call on ret.path, or NoRet
  panicking,    \* TRUE while a runtime panic unwinds the readDir stack
  tree,         \* *nodes as held by dirTree after readDir returned
  opened,       \* history: paths os.Open opened successfully
  openFailed,   \* history: paths os.Open failed on
  listing,      \* history: path -> entries Readdir returned, as returned
  readFailed,   \* history: paths whose Readdir reported an error
  closeFailed,  \* history: paths whose Close reported an error
  closes,       \* history: path -> number of Close calls on its handle
  pstack,       \* call stack of printDir, innermost frame last
  pret,         \* error just returned by a printDir call, or NoRet
  heap,         \* backing arrays of the prefixes slices
  growth,       \* length needed -> capacity append allocated for it
  out,          \* the writes the sink accepted, in order
  attempts,     \* number of Write calls made on the sink
  werr          \* the error of the Write call that failed, or NilErr

vars == <<withFiles, pc, result, rstack, ret, panicking, tree, opened,
          openFailed, listing, readFailed, closeFailed, closes, pstack,
          pret, heap, growth, out, attempts, werr>>

buildVars == <<rstack, ret, panicking, tree, opened, openFailed, listing,
               readFailed, closeFailed, closes>>
printVars == <<pstack, pret, heap, growth, out, attempts, werr>>

\* ------------------------------------------------------------------ values
NilErr == [kind |-> "nil", path |-> <<>>]
OpenErr(p) == [kind |-> "open", path |-> p]
ReadErr(p) == [kind |-> "read", path |-> p]
CloseErr(p) == [kind |-> "close", path |-> p]
WriteErr(n) == [kind |-> "write", path |-> <<n>>]

NoRet == [set |-> FALSE]
NilNodes == [isNil |-> TRUE, elems |-> <<>>]          \* a nil *[]Node
NodesPtr(s) == [isNil |-> FALSE, elems |-> s]         \* a non-nil *[]Node

\* os.FileInfo as Readdir returns it: Name(), IsDir(), Size().
Entries ==
  {[name |-> n, isDir |-> d, size |-> IF d THEN 0 ELSE SizeTable[n]] :
     n \in Names, d \in BOOLEAN}

\* DirInfo{name, children} and FileInfo{name, size}.
DirInfo(name, children) ==
  [isDir |-> TRUE, name |-> name, size |-> 0, children |-> children]
FileInfo(name, size) ==
  [isDir |-> FALSE, name |-> name, size |-> size, children |-> <<>>]

RECURSIVE SumLen(_, _)
SumLen(f, S) ==
  IF S = {} THEN 0
  ELSE LET p == CHOOSE q \in S : TRUE IN Len(f[p]) + SumLen(f, S \ {p})

\* Entries returned so far over the whole run, and faults injected so far.
Used == SumLen(listing, DOMAIN listing)
Faults == Cardinality(openFailed) + Cardinality(readFailed)
          + Cardinality(closeFailed) + (IF werr = NilErr THEN 0 ELSE 1)
MayFail == Faults < MaxFaults

\* What Readdir(0) can return: entries with pairwise distinct names, in any
\* order.
Listings(room) ==
  LET k == IF room < MaxName THEN room ELSE MaxName
      raw == UNION {[1..n -> Entries] : n \in 0..k}
  IN {s \in raw : \A i, j \in 1..Len(s) : i # j => s[i].name # s[j].name}

\* -------------------------------------------------------------- text
\* concatStrings(strings...)
RECURSIVE concatStrings(_)
concatStrings(strings) ==
  IF strings = <<>> THEN ""
  ELSE Head(strings) \o concatStrings(Tail(strings))

Digit(d) == SubSeq(<<"0", "1", "2", "3", "4", "5", "6", "7", "8", "9">>, d + 1, d + 1)[1]

\* strconv.FormatInt(n, 10) for n >= 0
RECURSIVE FormatInt(_)
FormatInt(n) ==
  IF n < 10 THEN Digit(n) ELSE FormatInt(n \div 10) \o Digit(n % 10)

\* FileInfo.String and DirInfo.String
String(node) ==
  IF node.isDir THEN NameTable[node.name]
  ELSE IF node.size = 0
       THEN concatStrings(<<NameTable[node.name], " (empty)">>)
       ELSE concatStrings(<<NameTable[node.name], " (", FormatInt(node.size), "b)">>)

\* -------------------------------------------------------------- readDir
\* sort.Slice(files, func(i, j) bool { return files[i].Name() < files[j].Name() })
\* Faulty variant: the entries are used in the order Readdir returned them.
SortByNameSkipped(files) == files

RECURSIVE SortByName(_)
SortByName(files) ==
  IF files = <<>> THEN <<>>
  ELSE LET m == CHOOSE i \in 1..Len(files) :
                  \A j \in 1..Len(files) : files[i].name <= files[j].name
           rest == [k \in 1..(Len(files) - 1) |->
                      IF k < m THEN files[k] ELSE files[k + 1]]
       IN <<files[m]>> \o SortByName(rest)

\* if !(info.IsDir() || withFiles) { continue }
Skipped(info, wf) == ~(info.isDir \/ wf)

Frame(path) ==
  [path |-> path, pc |-> "open", files |-> <<>>, i |-> 1, nodes |-> <<>>,
   err |-> NilErr]

Top(stack) == stack[Len(stack)]
Pop(stack) == SubSeq(stack, 1, Len(stack) - 1)
SetTop(stack, f) == [stack EXCEPT ![Len(stack)] = f]

\* (CloseCountOnlyAfterCleanRead is the faulty variant that returns on a Readdir error
\* before the Close is deferred.)
\* The deferred closure of readDir, registered right after Readdir whatever
\* Readdir answered:  cErr := file.Close(); if err == nil { err = cErr }
\* CloseCount is its Close call on the handle of frame f, DeferredErr the
\* value it leaves in the named result err.
CloseCountOnlyAfterCleanRead(cl, f) ==
  IF f.err = NilErr THEN [cl EXCEPT ![f.path] = @ + 1] ELSE cl
CloseCount(cl, f) == [cl EXCEPT ![f.path] = @ + 1]
DeferredErr(err, cErr) == IF err = NilErr THEN cErr ELSE err

Init ==
  /\ withFiles \in BOOLEAN
  /\ pc = "build"
  /\ result = NilErr
  /\ rstack = <<Frame(<<>>)>>
  /\ ret = NoRet
  /\ panicking = FALSE
  /\ tree = <<>>
  /\ opened = {}
  /\ openFailed = {}
  /\ listing = <<>>
  /\ readFailed = {}
  /\ closeFailed = {}
  /\ closes = <<>>
  /\ pstack = <<>>
  /\ pret = NoRet
  /\ heap = <<>>
  /\ growth = <<>>
  /\ out = <<>>
  /\ attempts = 0
  /\ werr = NilErr

InBuild == pc = "build" /\ ~panicking /\ rstack # <<>>

\* file, err := os.Open(path) succeeds.
OpenOk ==
  /\ InBuild /\ Top(rstack).pc = "open"
  /\ opened' = opened \cup {Top(rstack).path}
  /\ closes' = closes @@ (Top(rstack).path :> 0)
  /\ rstack' = SetTop(rstack, [Top(rstack) EXCEPT !.pc = "readdir"])
  /\ UNCHANGED <<withFiles, pc, result, ret, panicking, tree, openFailed,
                 listing, readFailed, closeFailed>>
  /\ UNCHANGED printVars

\* file, err := os.Open(path) fails: return nil, err
OpenFail ==
  /\ InBuild /\ Top(rstack).pc = "open"
  /\ MayFail
  /\ openFailed' = openFailed \cup {Top(rstack).path}
  /\ ret' = [set |-> TRUE, nodes |-> NilNodes,
             err |-> OpenErr(Top(rstack).path), path |-> Top(rstack).path]
  /\ rstack' = Pop(rstack)
  /\ UNCHANGED <<withFiles, pc, result, panicking, tree, opened, listing,
                 readFailed, closeFailed, closes>>
  /\ UNCHANGED printVars

\* files, err := file.Readdir(0); defer ...; sort.Slice(files, ...)
Readdir ==
  /\ InBuild /\ Top(rstack).pc = "readdir"
  /\ \E files \in Listings(MaxNodes - Used), failed \in BOOLEAN :
       /\ failed => MayFail
       /\ listing' = listing @@ (Top(rstack).path :> files)
       /\ readFailed' = IF failed THEN readFailed \cup {Top(rstack).path}
                        ELSE readFailed
       /\ rstack' = SetTop(rstack,
            [Top(rstack) EXCEPT
               !.pc = "loop",
               !.files = SortByName(files),
               !.err = IF failed THEN ReadErr(Top(rstack).path) ELSE NilErr])
  /\ UNCHANGED <<withFiles, pc, result, ret, panicking, tree, opened,
                 openFailed, closeFailed, closes>>
  /\ UNCHANGED printVars

\* One iteration of  for _, info := range files  up to the recursive call.
LoopEntry ==
  /\ InBuild /\ Top(rstack).pc = "loop"
  /\ Top(rstack).i <= Len(Top(rstack).files)
  /\ LET f == Top(rstack)
         info == f.files[f.i]
     IN rstack' =
          IF Skipped(info, withFiles)
          THEN SetTop(rstack, [f EXCEPT !.i = f.i + 1])
          ELSE IF info.isDir
          THEN Append(SetTop(rstack, [f EXCEPT !.pc = "call"]),
                      Frame(Append(f.path, info.name)))
          ELSE SetTop(rstack, [f EXCEPT
                 !.i = f.i + 1,
                 !.nodes = Append(f.nodes, FileInfo(info.name, info.size))])
  /\ UNCHANGED <<withFiles, pc, result, ret, panicking, tree, opened,
                 openFailed, listing, readFailed, closeFailed, closes>>
  /\ UNCHANGED printVars

\* children, _ := readDir(...); newNode = DirInfo{info.Name(), *children};
\* *nodes = append(*nodes, newNode).  Dereferencing a nil children panics.
AfterCall ==
  /\ InBuild /\ Top(rstack).pc = "call" /\ ret.set
  /\ LET f == Top(rstack)
         info == f.files[f.i]
     IN IF ret.nodes.isNil
        THEN /\ panicking' = TRUE
             /\ rstack' = rstack
        ELSE /\ panicking' = FALSE
             /\ rstack' = SetTop(rstack, [f EXCEPT
                  !.pc = "loop",
                  !.i = f.i + 1,
                  !.nodes = Append(f.nodes, DirInfo(info.name, ret.nodes.elems))])
  /\ ret' = NoRet
  /\ UNCHANGED <<withFiles, pc, result, tree, opened, openFailed, listing,
                 readFailed, closeFailed, closes>>
  /\ UNCHANGED printVars

\* return nodes, err  followed by the deferred Close.
Return ==
  /\ InBuild /\ Top(rstack).pc = "loop"
  /\ Top(rstack).i > Len(Top(rstack).files)
  /\ \E failed \in BOOLEAN :
       LET f == Top(rstack)
           cErr == IF failed THEN CloseErr(f.path) ELSE NilErr
       IN /\ failed => MayFail
          /\ closes' = CloseCount(closes, f)
          /\ closeFailed' = IF failed THEN closeFailed \cup {f.path}
                            ELSE closeFailed
          /\ ret' = [set |-> TRUE, nodes |-> NodesPtr(f.nodes),
                     err |-> DeferredErr(f.err, cErr), path |-> f.path]
          /\ rstack' = Pop(rstack)
  /\ UNCHANGED <<withFiles, pc, result, panicking, tree, opened, openFailed,
                 listing, readFailed>>
  /\ UNCHANGED printVars

\* The panic leaves one readDir frame: its deferred Close runs, the frame is
\* dropped, the panic goes on to the caller.
Unwind ==
  /\ pc = "build" /\ panicking /\ rstack # <<>>
  /\ \E failed \in BOOLEAN :
       LET f == Top(rstack)
       IN /\ failed => MayFail
          /\ closes' = CloseCount(closes, f)
          /\ closeFailed' = IF failed THEN closeFailed \cup {f.path}
                            ELSE closeFailed
          /\ rstack' = Pop(rstack)
  /\ UNCHANGED <<withFiles, pc, result, ret, panicking, tree, opened,
                 openFailed, listing, readFailed>>
  /\ UNCHANGED printVars

\* The panic reaches main, which does not recover: the process dies.
Crash ==
  /\ pc = "build" /\ panicking /\ rstack = <<>>
  /\ pc' = "crashed"
  /\ UNCHANGED <<withFiles, result>>
  /\ UNCHANGED buildVars
  /\ UNCHANGED printVars

\* -------------------------------------------------------------- slices
\* A []string value: a window of len elements, of cap available, on the
\* backing array heap[arr].  []string{} has no backing array.
EmptySlice == [arr |-> 0, len |-> 0, cap |-> 0]

\* The elements a slice shows.
Elems(h, s) == IF s.len = 0 THEN <<>> ELSE SubSeq(h[s.arr], 1, s.len)

\* append(s, x).  With spare capacity the element is stored in place in the
\* shared backing array; otherwise a new array of capacity c is allocated and
\* the elements are copied.  Go leaves c to the implementation, which picks
\* it as a function of the length needed (Caps).
SliceAppend(h, s, x, c) ==
  IF s.len < s.cap
  THEN [heap |-> [h EXCEPT ![s.arr][s.len + 1] = x],
        slice |-> [s EXCEPT !.len = s.len + 1]]
  ELSE [heap |-> Append(h, Elems(h, s) \o <<x>>
                           \o [k \in 1..(c - s.len - 1) |-> ""]),
        slice |-> [arr |-> Len(h) + 1, len |-> s.len + 1, cap |-> c]]

Caps(g, s) ==
  IF s.len < s.cap THEN {s.cap}
  ELSE IF s.len + 1 \in DOMAIN g THEN {g[s.len + 1]}
  ELSE (s.len + 1)..(s.len + 1 + CapSlack)

\* The growth policy once append(s, x) has used capacity c.
Grown(g, s, c) ==
  IF s.len < s.cap \/ s.len + 1 \in DOMAIN g THEN g
  ELSE g @@ ((s.len + 1) :> c)

\* -------------------------------------------------------------- printDir
LastConnector == "\\---"
MidConnector == "+---"
LastFragment == "\t"
MidFragment == "|\t"

\* len(nodes) == 1 selects the last-node branch of printDir.
IsLastNode(nodes) == Len(nodes) = 1

\* Faulty variant: the connector does not depend on the position.
ConnectorAlwaysMid(nodes) == MidConnector

Connector(nodes) == IF IsLastNode(nodes) THEN LastConnector ELSE MidConnector

\* The fragment appended to prefixes for the children of nodes[0].
Fragment(nodes) == IF IsLastNode(nodes) THEN LastFragment ELSE MidFragment

\* Faulty variant: nodes[2:] instead of nodes[1:].
RestOffByOne(nodes) == SubSeq(nodes, 3, Len(nodes))

\* nodes[1:]
Rest(nodes) == Tail(nodes)

\* Faulty variant: the remaining siblings get the slice extended for the children.
TailPrefixesExtended(prefixes, extended) == extended

\* The prefixes argument of printDir(out, nodes[1:], prefixes); extended is
\* the result of the append made for the children of nodes[0], if any.
TailPrefixes(prefixes, extended) == prefixes

\* A call printDir(out, nodes, prefixes); dir is the path of the directory
\* whose children nodes are (history only).
PFrame(nodes, prefixes, dir) ==
  [nodes |-> nodes, prefixes |-> prefixes, pc |-> "entry", dir |-> dir,
   ext |-> prefixes]

\* Faulty variant: the error of a Write is ignored.
StopsOnErrorNever(err) == FALSE

\* if err != nil { return err }  after a Write.
StopsOnError(err) == err # NilErr

\* The stack once a result err has been passed up: a caller that is in
\* return printDir(...)  returns it at once, and so does the caller waiting
\* for the children of a non-last directory when err != nil; that caller
\* goes on (PrintTail) when err is nil.
RECURSIVE Unwound(_, _)
Unwound(stack, err) ==
  IF stack = <<>> THEN stack
  ELSE IF Top(stack).pc = "child" /\ err = NilErr THEN stack
  ELSE Unwound(Pop(stack), err)

\* return err  from the innermost printDir call.
PReturn(err) ==
  /\ pstack' = Unwound(Pop(pstack), err)
  /\ pret' = [set |-> TRUE, err |-> err]

InRender == pc = "render" /\ pstack # <<>>

\* dirTree after readDir returned.
DirTreeAfterRead ==
  /\ pc = "build" /\ ~panicking /\ rstack = <<>> /\ ret.set
  /\ IF ret.err # NilErr
     THEN /\ pc' = "done" /\ result' = ret.err
          /\ UNCHANGED <<tree, pstack>>
     ELSE IF ret.nodes.isNil
     THEN /\ pc' = "done" /\ result' = [kind |-> "no nodes", path |-> <<>>]
          /\ UNCHANGED <<tree, pstack>>
     ELSE /\ pc' = "render" /\ result' = result
          /\ tree' = ret.nodes.elems
          /\ pstack' = <<PFrame(ret.nodes.elems, EmptySlice, <<>>)>>
  /\ ret' = NoRet
  /\ UNCHANGED <<withFiles, rstack, panicking, opened, openFailed, listing,
                 readFailed, closeFailed, closes>>
  /\ UNCHANGED <<pret, heap, growth, out, attempts, werr>>

\* if len(nodes) == 0 { return nil }
PrintEmpty ==
  /\ InRender /\ Top(pstack).pc = "entry" /\ Top(pstack).nodes = <<>>
  /\ PReturn(NilErr)
  /\ UNCHANGED <<withFiles, pc, result>>
  /\ UNCHANGED buildVars
  /\ UNCHANGED <<heap, growth, out, attempts, werr>>

\* One Write on the sink: it fails, or the sink accepts the text.
WriteTo(text, path, kind, failed) ==
  /\ failed => MayFail
  /\ attempts' = attempts + 1
  /\ werr' = IF failed THEN WriteErr(attempts + 1) ELSE werr
  /\ out' = IF failed THEN out
            ELSE Append(out, [kind |-> kind, text |-> text, path |-> path])

\* totalPrefixes, err := concatStrings(prefixes...);
\* _, err = fmt.Fprintf(out, "%s", totalPrefixes)
PrintPrefix ==
  /\ InRender /\ Top(pstack).pc = "entry" /\ Top(pstack).nodes # <<>>
  /\ \E failed \in BOOLEAN :
       LET f == Top(pstack)
           path == Append(f.dir, f.nodes[1].name)
           err == IF failed THEN WriteErr(attempts + 1) ELSE NilErr
       IN /\ WriteTo(concatStrings(Elems(heap, f.prefixes)), path, "prefix",
                     failed)
          /\ IF StopsOnError(err)
             THEN PReturn(err)
             ELSE /\ pstack' = SetTop(pstack, [f EXCEPT !.pc = "line"])
                  /\ pret' = pret
  /\ UNCHANGED <<withFiles, pc, result, heap, growth>>
  /\ UNCHANGED buildVars

\* node := nodes[0]; fmt.Fprintf(out, "%s%s\n", connector, node); then the
\* call on the children of a directory, or on nodes[1:] after a file.
PrintLine ==
  /\ InRender /\ Top(pstack).pc = "line"
  /\ \E failed \in BOOLEAN, c \in Caps(growth, Top(pstack).prefixes) :
       LET f == Top(pstack)
           node == f.nodes[1]
           path == Append(f.dir, node.name)
           err == IF failed THEN WriteErr(attempts + 1) ELSE NilErr
           app == SliceAppend(heap, f.prefixes, Fragment(f.nodes), c)
       IN /\ WriteTo(concatStrings(<<Connector(f.nodes), String(node), "\n">>),
                     path, "line", failed)
          /\ (failed \/ ~node.isDir) =>
               c = CHOOSE x \in Caps(growth, f.prefixes) : TRUE
          /\ IF StopsOnError(err)
             THEN PReturn(err) /\ UNCHANGED <<heap, growth>>
             ELSE IF node.isDir
             THEN /\ heap' = app.heap
                  /\ growth' = Grown(growth, f.prefixes, c)
                  /\ pstack' = Append(
                       SetTop(pstack, [f EXCEPT
                         !.pc = IF IsLastNode(f.nodes) THEN "lastChild"
                                ELSE "child",
                         !.ext = app.slice]),
                       PFrame(node.children, app.slice, path))
                  /\ pret' = pret
             ELSE IF IsLastNode(f.nodes)
             THEN PReturn(NilErr) /\ UNCHANGED <<heap, growth>>
             ELSE /\ UNCHANGED <<heap, growth>>
                  /\ pstack' = Append(
                       SetTop(pstack, [f EXCEPT !.pc = "tail"]),
                       PFrame(Rest(f.nodes),
                              TailPrefixes(f.prefixes, f.ext), f.dir))
                  /\ pret' = pret
  /\ UNCHANGED <<withFiles, pc, result>>
  /\ UNCHANGED buildVars

\* The children of a non-last directory are printed and err is nil:
\* return printDir(out, nodes[1:], prefixes)
PrintTail ==
  /\ InRender /\ Top(pstack).pc = "child" /\ pret.set
  /\ LET f == Top(pstack)
     IN pstack' = Append(
          SetTop(pstack, [f EXCEPT !.pc = "tail"]),
          PFrame(Rest(f.nodes), TailPrefixes(f.prefixes, f.ext), f.dir))
  /\ pret' = NoRet
  /\ UNCHANGED <<withFiles, pc, result>>
  /\ UNCHANGED buildVars
  /\ UNCHANGED <<heap, growth, out, attempts, werr>>

\* return printDir(out, *nodes, []string{})  in dirTree.
DirTreeAfterPrint ==
  /\ pc = "render" /\ pstack = <<>> /\ pret.set
  /\ pc' = "done"
  /\ result' = pret.err
  /\ pret' = NoRet
  /\ UNCHANGED withFiles
  /\ UNCHANGED buildVars
  /\ UNCHANGED <<pstack, heap, growth, out, attempts, werr>>

Next == OpenOk \/ OpenFail \/ Readdir \/ LoopEntry \/ AfterCall \/ Return
        \/ Unwind \/ Crash \/ DirTreeAfterRead \/ PrintEmpty \/ PrintPrefix
        \/ PrintLine \/ PrintTail \/ DirTreeAfterPrint

Spec == Init /\ [][Next]_vars

\* ================================================================ claims
Front(p) == SubSeq(p, 1, Len(p) - 1)
Last(p) == p[Len(p)]
Range(q) == {q[i] : i \in 1..Len(q)}
Terminated == pc \in {"done", "crashed"}
Succeeded == pc = "done" /\ result = NilErr

\* The entries of directory D that the mode includes.
Included(D) == {e \in Range(listing[D]) : withFiles \/ e.isDir}

\* The label the specification gives an entry.
Label(e) ==
  IF e.isDir THEN NameTable[e.name]
  ELSE IF e.size = 0 THEN NameTable[e.name] \o " (empty)"
  ELSE NameTable[e.name] \o " (" \o FormatInt(e.size) \o "b)"

Lines == SelectSeq(out, LAMBDA w : w.kind = "line")
LinesOf(D) == SelectSeq(out, LAMBDA w : w.kind = "line" /\ Front(w.path) = D)
LinePaths == [i \in 1..Len(Lines) |-> Lines[i].path]
HasLine(p) == \E i \in 1..Len(out) : out[i].kind = "line" /\ out[i].path = p

\* The children of the directory at path p of the built tree, and the node
\* at path p.
RECURSIVE ChildrenAt(_, _)
ChildrenAt(nodes, p) ==
  IF p = <<>> THEN nodes
  ELSE LET n == CHOOSE x \in Range(nodes) : x.name = Head(p)
       IN ChildrenAt(n.children, Tail(p))
NodeAt(p) ==
  CHOOSE x \in Range(ChildrenAt(tree, Front(p))) : x.name = Last(p)

RECURSIVE Preorder(_, _)
Preorder(nodes, dir) ==
  IF nodes = <<>> THEN <<>>
  ELSE <<Append(dir, nodes[1].name)>>
       \o Preorder(nodes[1].children, Append(dir, nodes[1].name))
       \o Preorder(Tail(nodes), dir)

IsPrefix(a, b) == Len(a) <= Len(b) /\ a = SubSeq(b, 1, Len(a))

\* C1: when opening a non-root subdirectory S fails and nothing else does,
\* dirTree completes and returns no error, S has a line in the output, and
\* every included sibling of S that sorts after S has its line too.
C1_SubdirOpenErrorSwallowed ==
  (/\ Terminated
   /\ openFailed # {} /\ <<>> \notin openFailed
   /\ readFailed = {} /\ closeFailed = {} /\ werr = NilErr)
  => /\ pc = "done"
     /\ result = NilErr
     /\ \A S \in openFailed :
          /\ HasLine(S)
          /\ \A e \in Included(Front(S)) :
               e.name > Last(S) => HasLine(Append(Front(S), e.name))

\* C2: when listing a non-root subdirectory S reports an error (after S was
\* opened) and nothing else fails, dirTree returns no error, the node built
\* for S has zero children and no line is rendered beneath S.
C2_SubdirReadErrorYieldsNoChildren ==
  (/\ pc = "done"
   /\ readFailed # {} /\ <<>> \notin readFailed
   /\ openFailed = {} /\ closeFailed = {} /\ werr = NilErr)
  => /\ result = NilErr
     /\ \A S \in readFailed :
          /\ ChildrenAt(tree, S) = <<>>
          /\ LinesOf(S) = <<>>

\* C3: when opening the root fails or listing the root reports an error,
\* dirTree returns exactly that error and no Write is made on the sink.
C3_RootErrorReturned ==
  (Terminated /\ (<<>> \in openFailed \/ <<>> \in readFailed))
  => /\ pc = "done"
     /\ result = (IF <<>> \in openFailed THEN OpenErr(<<>>) ELSE ReadErr(<<>>))
     /\ attempts = 0

\* The part of C3 that the code keeps: in a run dirTree returns from.
C3_RootErrorReturnedIfReturns ==
  (pc = "done" /\ (<<>> \in openFailed \/ <<>> \in readFailed))
  => /\ result = (IF <<>> \in openFailed THEN OpenErr(<<>>) ELSE ReadErr(<<>>))
     /\ attempts = 0

\* C4: when dirTree returns nil, for every directory D that was opened and
\* listed without error, the lines rendered for D's direct children are
\* exactly D's included entries (all of them with files included, only the
\* directories otherwise), each once, in ascending name order, each with the
\* label of its entry, whatever the order Readdir returned them in.
C4_ChildrenRenderedSortedAndFiltered ==
  Succeeded =>
    \A D \in opened \ readFailed :
      LET ls == LinesOf(D)
          inc == Included(D)
      IN /\ Len(ls) = Cardinality(inc)
         /\ \A i \in 1..Len(ls) :
              \E e \in inc :
                /\ e.name = Last(ls[i].path)
                /\ ls[i].text \in {MidConnector \o Label(e) \o "\n",
                                   LastConnector \o Label(e) \o "\n"}
         /\ \A i \in 1..(Len(ls) - 1) : Last(ls[i].path) < Last(ls[i + 1].path)

\* A nested directory returned its entries out of name order, a directory
\* named after a file, and both were rendered.
C4_Witness ==
  /\ Succeeded /\ withFiles
  /\ \E D \in opened \ readFailed :
       /\ Len(D) >= 1
       /\ Len(listing[D]) = 2
       /\ listing[D][1].name > listing[D][2].name
       /\ listing[D][1].isDir /\ ~listing[D][2].isDir
       /\ Len(LinesOf(D)) = 2

\* C5: every line written carries the last connector if its node is the
\* last included entry of its directory in name order (last after the file
\* filter) and the branch connector otherwise; and when dirTree returns nil
\* every directory with an included entry has exactly one line with the last
\* connector among its children's lines.
IsLastIncluded(p) == \A e \in Included(Front(p)) : e.name <= Last(p)
LineText(conn, p) == conn \o String(NodeAt(p)) \o "\n"
C5_OneLastConnectorPerSiblingSequence ==
  /\ \A i \in 1..Len(out) :
       out[i].kind = "line" =>
         out[i].text = LineText(IF IsLastIncluded(out[i].path)
                                THEN LastConnector ELSE MidConnector,
                                out[i].path)
  /\ Succeeded =>
       \A D \in opened :
         Included(D) # {} =>
           Cardinality({i \in 1..Len(out) :
                          /\ out[i].kind = "line"
                          /\ Front(out[i].path) = D
                          /\ out[i].text = LineText(LastConnector, out[i].path)})
             = 1

\* Directories-only mode: a directory followed in name order only by a file
\* was rendered, as was a sibling sequence of two nodes.
C5_Witness ==
  /\ Succeeded /\ ~withFiles
  /\ \E D \in opened :
       \E d, f \in Range(listing[D]) :
         /\ d.isDir /\ ~f.isDir /\ d.name < f.name
         /\ HasLine(Append(D, d.name))
  /\ \E D \in opened : Len(LinesOf(D)) = 2

\* C6: the text written before the connector of the node at path p is the
\* concatenation of one fragment per proper ancestor of p, outermost first:
\* a tab if that ancestor is the last node of its sibling sequence in the
\* built tree, bar and tab otherwise.
IsLastBuilt(q) ==
  LET sib == ChildrenAt(tree, Front(q)) IN sib[Len(sib)].name = Last(q)
RECURSIVE ExpectedPrefix(_, _)
ExpectedPrefix(p, k) ==
  IF k >= Len(p) THEN ""
  ELSE (IF IsLastBuilt(SubSeq(p, 1, k)) THEN "\t" ELSE "|\t")
       \o ExpectedPrefix(p, k + 1)
C6_PrefixIsOneFragmentPerAncestor ==
  \A i \in 1..Len(out) :
    out[i].kind = "prefix" => out[i].text = ExpectedPrefix(out[i].path, 1)

\* A node at depth 1 was printed after its earlier sibling's child had been
\* printed with a prefix extended in place: only one backing array was ever
\* allocated, so the fragment for that child went into the array the
\* siblings' prefix lives in.
C6_Witness ==
  /\ Len(heap) = 1
  /\ \E i, j, k \in 1..Len(out) :
       /\ i < j /\ j < k
       /\ out[j].kind = "prefix" /\ out[k].kind = "prefix"
       /\ Len(out[i].path) = 2
       /\ out[j].path = Append(out[i].path, Last(out[j].path))
       /\ Len(out[j].path) = 3
       /\ Len(out[k].path) = 2
       /\ Front(out[k].path) = Front(out[i].path)
       /\ out[k].path # out[i].path

\* C7: the lines written so far are, in order, an initial part of the
\* pre-order traversal of the built tree (root excluded), each line directly
\* after the prefix written for the same node; when dirTree returns nil they
\* are the whole traversal, one line per node.
C7_OutputIsPreorder ==
  /\ IsPrefix(LinePaths, Preorder(tree, <<>>))
  /\ \A i \in 1..Len(out) :
       IF i % 2 = 1 THEN out[i].kind = "prefix"
       ELSE out[i].kind = "line" /\ out[i].path = out[i - 1].path
  /\ Succeeded => LinePaths = Preorder(tree, <<>>)

\* A directory's subtree was rendered and then a later sibling at a
\* shallower depth.
C7_Witness ==
  /\ Succeeded
  /\ \E i, j, k \in 1..Len(LinePaths) :
       /\ i < j /\ j < k
       /\ LinePaths[j] = Append(LinePaths[i], Last(LinePaths[j]))
       /\ Front(LinePaths[k]) = Front(LinePaths[i])

\* C8: a handle that was opened has had no Close while the readDir call
\* that opened it is still on the stack, and exactly one Close once that
\* call has left the stack (by return or by panic); once dirTree has ended,
\* every opened handle has been closed exactly once.
Live(p) == \E i \in 1..Len(rstack) : rstack[i].path = p
C8_HandleClosedOnceBeforeReturn ==
  /\ \A p \in opened : closes[p] = (IF Live(p) THEN 0 ELSE 1)
  /\ Terminated => rstack = <<>>

\* dirTree ended after a scan whose listing reported an error and a scan
\* whose nested subdirectory scan failed to open.
C8_Witness ==
  /\ Terminated
  /\ readFailed # {}
  /\ \E p \in openFailed : p # <<>>
  /\ Cardinality(opened) >= 2

\* C9: a scan returns its first error: the read error if listing reported
\* one, else the close error if closing failed, else nil; and when the
\* root's listing succeeded and its Close failed, dirTree fails with that
\* close error and writes nothing.
FirstError(p) ==
  IF p \in readFailed THEN ReadErr(p)
  ELSE IF p \in closeFailed THEN CloseErr(p)
  ELSE NilErr
C9_FirstErrorWins ==
  /\ (ret.set /\ ret.path \in opened) => ret.err = FirstError(ret.path)
  /\ (Terminated /\ <<>> \in closeFailed /\ <<>> \notin readFailed)
       => /\ pc = "done"
          /\ result = CloseErr(<<>>)
          /\ attempts = 0

\* The part of C9 that the code keeps: every scan that returns.
C9_FirstErrorWinsIfReturns ==
  /\ (ret.set /\ ret.path \in opened) => ret.err = FirstError(ret.path)
  /\ (pc = "done" /\ <<>> \in closeFailed /\ <<>> \notin readFailed)
       => result = CloseErr(<<>>) /\ attempts = 0

\* C10: once a Write has failed, it is the last Write call made on the sink,
\* all the earlier writes are in the output, and dirTree returns that
\* Write's error.
C10_NoWriteAfterWriteError ==
  werr # NilErr =>
    /\ werr = WriteErr(attempts)
    /\ Len(out) = attempts - 1
    /\ pc = "done" => result = werr
    /\ pc # "crashed"

\* A Write failed below the first recursion level, after output was made.
C10_Witness ==
  /\ pc = "done" /\ werr # NilErr
  /\ Len(out) >= 3
  /\ Len(out) % 2 = 1
====
